---- MODULE Spec2Model ----
(***************************************************************************)
(* A model of the pretty-printing engine of src/src/data.rs: the document  *)
(* algebra DocCore, the resolved layout Doc, flatten, the resolution       *)
(* engine (best / be / better / fits), the renderer layout, and the        *)
(* derived combinators.  Strings are sequences of one-character strings,   *)
(* so that s.len() is Len(s) and format!("{}{}", a, b) is a \o b.          *)
(* A client holds a list of document values (docs), builds larger ones     *)
(* with the constructors and combinators, and renders the newest one with  *)
(* pretty.                                                                 *)
(***************************************************************************)
EXTENDS Integers, Sequences, FiniteSets, TLC

VARIABLES docs, call, pc, width, res, out, fit

vars == <<docs, call, pc, width, res, out, fit>>

RECURSIVE flatten(_), layout(_), copy(_, _), be(_, _, _), fits(_, _)
RECURSIVE fold_doc(_, _), fill(_), Cost(_), StackCost(_)
RECURSIVE split(_), Lines(_), Unbreak(_)
RECURSIVE Unions(_), Breaks(_), Fragments(_), FlatLinesFit(_, _, _, _)
RECURSIVE GroupBuilt(_), Groups(_), RuleFits(_, _), Leaves(_)

(* ------------------------------------------------------------------ *)
(* Bounds of the exploration                                          *)
(* ------------------------------------------------------------------ *)
MaxCost == 6
MaxStack == 3
MaxWidth == 4

(* ------------------------------------------------------------------ *)
(* DocCore and Doc                                                     *)
(* ------------------------------------------------------------------ *)
DocCore_Nil == [tag |-> "Nil"]
DocCore_Append(x, y) == [tag |-> "Append", x |-> x, y |-> y]
DocCore_Nest(i, x) == [tag |-> "Nest", i |-> i, x |-> x]
DocCore_Text(s) == [tag |-> "Text", s |-> s]
DocCore_Line == [tag |-> "Line"]
DocCore_Union(x, y) == [tag |-> "Union", x |-> x, y |-> y]

Doc_Nil == [tag |-> "Nil"]
Doc_Text(s, x) == [tag |-> "Text", s |-> s, x |-> x]
Doc_Line(i, x) == [tag |-> "Line", i |-> i, x |-> x]

(* ------------------------------------------------------------------ *)
(* Constructors                                                        *)
(* ------------------------------------------------------------------ *)
nil == DocCore_Nil
append(x, y) == DocCore_Append(x, y)
nest(i, x) == DocCore_Nest(i, x)
text(s) == DocCore_Text(s)
line == DocCore_Line

\* flatten with the two parts of an Append exchanged
flatten_swapped(x) ==
  CASE x.tag = "Nil" -> DocCore_Nil
    [] x.tag = "Append" -> DocCore_Append(flatten(x.y), flatten(x.x))
    [] x.tag = "Nest" -> DocCore_Nest(x.i, flatten(x.x))
    [] x.tag = "Text" -> DocCore_Text(x.s)
    [] x.tag = "Line" -> DocCore_Text(<<" ">>)
    [] x.tag = "Union" -> flatten(x.x)

\* flatten that leaves the second part of an Append as it is
flatten_left_only(x) ==
  CASE x.tag = "Nil" -> DocCore_Nil
    [] x.tag = "Append" -> DocCore_Append(flatten(x.x), x.y)
    [] x.tag = "Nest" -> DocCore_Nest(x.i, flatten(x.x))
    [] x.tag = "Text" -> DocCore_Text(x.s)
    [] x.tag = "Line" -> DocCore_Text(<<" ">>)
    [] x.tag = "Union" -> flatten(x.x)

flatten(x) ==
  CASE x.tag = "Nil" -> DocCore_Nil
    [] x.tag = "Append" -> DocCore_Append(flatten(x.x), flatten(x.y))
    [] x.tag = "Nest" -> DocCore_Nest(x.i, flatten(x.x))
    [] x.tag = "Text" -> DocCore_Text(x.s)
    [] x.tag = "Line" -> DocCore_Text(<<" ">>)
    [] x.tag = "Union" -> flatten(x.x)

group(x) == DocCore_Union(flatten(x), x)

(* ------------------------------------------------------------------ *)
(* Renderer                                                            *)
(* ------------------------------------------------------------------ *)
\* what a call that panics yields instead of a string: no string is this
\* value, since every element of a string is one character
Panic == <<"panic: capacity overflow">>

\* i copies of x; a negative i, cast to usize, is a count no Vec can hold,
\* and the call panics
copy(i, x) ==
  IF i < 0 THEN Panic
  ELSE IF i = 0 THEN <<>>
  ELSE x \o copy(i - 1, x)

\* a panic of copy or of the layout of the rest is a panic of layout
layout(x) ==
  CASE x.tag = "Nil" -> <<>>
    [] x.tag = "Text" ->
         LET rest == layout(x.x)
         IN IF rest = Panic THEN Panic ELSE x.s \o rest
    [] x.tag = "Line" ->
         LET indent == copy(x.i, <<" ">>)
             rest == IF indent = Panic THEN Panic ELSE layout(x.x)
         IN IF rest = Panic THEN Panic ELSE <<"\n">> \o indent \o rest

(* ------------------------------------------------------------------ *)
(* Resolution engine                                                   *)
(* ------------------------------------------------------------------ *)
\* fits that also refuses a remaining width of exactly 0
fits_strict(w, x) ==
  IF w <= 0 THEN FALSE
  ELSE CASE x.tag = "Nil" -> TRUE
         [] x.tag = "Text" -> fits(w - Len(x.s), x.x)
         [] x.tag = "Line" -> TRUE

\* fits without the test of a negative remaining width
fits_unguarded(w, x) ==
  CASE x.tag = "Nil" -> TRUE
    [] x.tag = "Text" -> fits(w - Len(x.s), x.x)
    [] x.tag = "Line" -> TRUE

fits(w, x) ==
  IF w < 0 THEN FALSE
  ELSE CASE x.tag = "Nil" -> TRUE
         [] x.tag = "Text" -> fits(w - Len(x.s), x.x)
         [] x.tag = "Line" -> TRUE

\* better that forgets the current column
better_ignoring_column(w, k, x, y) == IF fits(w, x) THEN x ELSE y

\* better with its two answers exchanged
better_swapped(w, k, x, y) == IF fits(w - k, x) THEN y ELSE x

better(w, k, x, y) == IF fits(w - k, x) THEN x ELSE y

\* be whose Append case restarts at column 0
be_column_reset(w, k, xs) ==
  IF xs = <<>> THEN Doc_Nil
  ELSE LET i == xs[1][1]
           d == xs[1][2]
           z == Tail(xs)
       IN CASE d.tag = "Nil" -> be(w, k, z)
            [] d.tag = "Append" -> be(w, 0, <<<<i, d.x>>, <<i, d.y>>>> \o z)
            [] d.tag = "Nest" -> be(w, k, <<<<i + d.i, d.x>>>> \o z)
            [] d.tag = "Text" -> Doc_Text(d.s, be(w, k + Len(d.s), z))
            [] d.tag = "Line" -> Doc_Line(i, be(w, i, z))
            [] d.tag = "Union" ->
                 better(w, k, be(w, k, <<<<i, d.x>>>> \o z),
                              be(w, k, <<<<i, d.y>>>> \o z))

be(w, k, xs) ==
  IF xs = <<>> THEN Doc_Nil
  ELSE LET i == xs[1][1]
           d == xs[1][2]
           z == Tail(xs)
       IN CASE d.tag = "Nil" -> be(w, k, z)
            [] d.tag = "Append" -> be(w, k, <<<<i, d.x>>, <<i, d.y>>>> \o z)
            [] d.tag = "Nest" -> be(w, k, <<<<i + d.i, d.x>>>> \o z)
            [] d.tag = "Text" -> Doc_Text(d.s, be(w, k + Len(d.s), z))
            [] d.tag = "Line" -> Doc_Line(i, be(w, i, z))
            [] d.tag = "Union" ->
                 better(w, k, be(w, k, <<<<i, d.x>>>> \o z),
                              be(w, k, <<<<i, d.y>>>> \o z))

best(w, k, x) == be(w, k, <<<<0, x>>>>)

pretty(w, x) == layout(best(w, 0, x))

(* ------------------------------------------------------------------ *)
(* Derived combinators                                                 *)
(* ------------------------------------------------------------------ *)
space(x, y) == append(x, append(text(<<" ">>), y))

newline(x, y) == append(x, append(line, y))

BracketIndent == 2

\* bracket without the nest around the body
bracket_unindented(l, x, r) ==
  group(append(text(l),
               append(append(line, x), append(line, text(r)))))

bracket(l, x, r) ==
  group(append(text(l),
               append(nest(BracketIndent, append(line, x)),
                      append(line, text(r)))))

space_newline(x, y) == append(x, append(append(text(<<" ">>), line), y))

\* the call f(x, y) of a joiner passed to fold_doc, f named by a string
apply_joiner(f, x, y) ==
  CASE f = "space" -> space(x, y)
    [] f = "newline" -> newline(x, y)
    [] f = "space_newline" -> space_newline(x, y)

fold_doc(f, xs) ==
  IF xs = <<>> THEN nil
  ELSE IF Len(xs) = 1 THEN xs[1]
  ELSE apply_joiner(f, xs[1], fold_doc(f, Tail(xs)))

spread(xs) == fold_doc("space", xs)

stack(xs) == fold_doc("newline", xs)

\* s.split(" "): the pieces between single spaces, empty pieces kept
split(s) ==
  IF \A n \in 1..Len(s) : s[n] # " " THEN <<s>>
  ELSE LET p == CHOOSE n \in 1..Len(s) :
                  s[n] = " " /\ \A m \in 1..(n - 1) : s[m] # " "
       IN <<SubSeq(s, 1, p - 1)>> \o split(SubSeq(s, p + 1, Len(s)))

fill_words(s) ==
  LET ws == split(s)
  IN fold_doc("space_newline", [n \in 1..Len(ws) |-> text(ws[n])])

fill(xs) ==
  IF xs = <<>> THEN nil
  ELSE IF Len(xs) = 1 THEN xs[1]
  ELSE LET x == xs[1]
           y == xs[2]
           zs == Tail(Tail(xs))
           plain_zs == <<y>> \o zs
           flattened_zs == <<flatten(y)>> \o zs
       IN append(space(flatten(x), fill(flattened_zs)),
                 newline(x, fill(plain_zs)))

(* ------------------------------------------------------------------ *)
(* Measures used by the guards and the properties                      *)
(* ------------------------------------------------------------------ *)
\* number of constructor calls that build x (group counts as one call)
Cost(x) ==
  CASE x.tag = "Append" -> 1 + Cost(x.x) + Cost(x.y)
    [] x.tag = "Nest" -> 1 + Cost(x.x)
    [] x.tag = "Union" -> 1 + Cost(x.y)
    [] OTHER -> 1

StackCost(xs) == IF xs = <<>> THEN 0 ELSE Cost(xs[1]) + StackCost(Tail(xs))

\* the lines of a rendered string: the pieces between "\n"
Lines(s) ==
  IF \A n \in 1..Len(s) : s[n] # "\n" THEN <<s>>
  ELSE LET p == CHOOSE n \in 1..Len(s) :
                  s[n] = "\n" /\ \A m \in 1..(n - 1) : s[m] # "\n"
       IN <<SubSeq(s, 1, p - 1)>> \o Lines(SubSeq(s, p + 1, Len(s)))

\* number of line breaks of a rendered string
Breaks(s) == IF s = <<>> THEN 0
             ELSE (IF Head(s) = "\n" THEN 1 ELSE 0) + Breaks(Tail(s))

\* a resolved Doc with each Line(i, rest) replaced by Text(" ", rest)
Unbreak(x) ==
  CASE x.tag = "Nil" -> Doc_Nil
    [] x.tag = "Text" -> Doc_Text(x.s, Unbreak(x.x))
    [] x.tag = "Line" -> Doc_Text(<<" ">>, Unbreak(x.x))

\* the Union nodes of a document
Unions(x) ==
  CASE x.tag = "Append" -> Unions(x.x) \cup Unions(x.y)
    [] x.tag = "Nest" -> Unions(x.x)
    [] x.tag = "Union" -> {x} \cup Unions(x.x) \cup Unions(x.y)
    [] OTHER -> {}

Top == docs[Len(docs)]

NoCall == [op |-> "none"]
NoFit == [w |-> 0, v |-> FALSE, done |-> FALSE]

(* ------------------------------------------------------------------ *)
(* Operations of a client                                              *)
(* ------------------------------------------------------------------ *)
Init ==
  /\ docs = <<>>
  /\ call = NoCall
  /\ pc = "build"
  /\ width = 0
  /\ res = Doc_Nil
  /\ out = <<>>
  /\ fit = NoFit

\* a constructor or combinator returned: the client holds s, and nothing
\* is rendered yet (a client that panicked has stopped)
Built(s, c) ==
  /\ pc # "panicked"
  /\ docs' = s
  /\ call' = c
  /\ pc' = "build"
  /\ width' = 0
  /\ res' = Doc_Nil
  /\ out' = <<>>
  /\ fit' = NoFit

\* the client may hold one more document: at most depth of them, built by
\* at most bound constructor calls
CanPush(depth, bound) ==
  /\ Len(docs) < depth
  /\ StackCost(docs) + 1 <= bound

PushNil(depth, bound) ==
  /\ CanPush(depth, bound)
  /\ Built(docs \o <<nil>>, NoCall)

PushText(T, depth, bound) ==
  /\ CanPush(depth, bound)
  /\ \E s \in T : Built(docs \o <<text(s)>>, NoCall)

PushLine(depth, bound) ==
  /\ CanPush(depth, bound)
  /\ Built(docs \o <<line>>, NoCall)

\* append(x, y) of the two newest documents
DoAppend(bound) ==
  /\ Len(docs) >= 2
  /\ StackCost(docs) + 1 <= bound
  /\ LET n == Len(docs)
     IN Built(SubSeq(docs, 1, n - 2) \o <<append(docs[n - 1], docs[n])>>,
              NoCall)

DoNest(N, bound) ==
  /\ Len(docs) >= 1
  /\ StackCost(docs) + 1 <= bound
  /\ \E i \in N :
       Built(SubSeq(docs, 1, Len(docs) - 1) \o <<nest(i, Top)>>, NoCall)

DoGroup(bound) ==
  /\ Len(docs) >= 1
  /\ StackCost(docs) + 1 <= bound
  /\ Built(SubSeq(docs, 1, Len(docs) - 1) \o <<group(Top)>>,
           [op |-> "group", x |-> Top])

DoBracket(l, r, bound) ==
  /\ Len(docs) >= 1
  /\ StackCost(docs) <= bound
  /\ call.op = "none"
  /\ Built(SubSeq(docs, 1, Len(docs) - 1) \o <<bracket(l, Top, r)>>,
           [op |-> "bracket", x |-> Top])

\* fill(&xs) of all the documents held
DoFill(bound) ==
  /\ Len(docs) >= 2
  /\ StackCost(docs) <= bound
  /\ call.op = "none"
  /\ Built(<<fill(docs)>>, [op |-> "fill", xs |-> docs])

DoFillWords(S) ==
  /\ docs = <<>>
  /\ \E s \in S : Built(<<fill_words(s)>>, [op |-> "fill_words", s |-> s])

\* pretty(w, x) of the newest document: it returns a string, or panics when
\* the resolved layout holds a Line of negative indentation
DoPretty(W) ==
  /\ Len(docs) >= 1
  /\ pc # "panicked"
  /\ \E w \in W :
       /\ width' = w
       /\ res' = best(w, 0, Top)
       /\ out' = pretty(w, Top)
       /\ pc' = IF pretty(w, Top) = Panic THEN "panicked" ELSE "rendered"
       /\ fit' = NoFit
       /\ UNCHANGED <<docs, call>>

\* fits(r, d) on the resolved layout of the last rendering
DoFits(R) ==
  /\ pc = "rendered"
  /\ \E r \in R :
       /\ fit' = [w |-> r, v |-> fits(r, res), done |-> TRUE]
       /\ UNCHANGED <<docs, call, pc, width, res, out>>

(* ------------------------------------------------------------------ *)
(* Specifications                                                      *)
(* ------------------------------------------------------------------ *)
Texts == {<<"a">>}
NestAmounts == {-1, 1}
Widths == 0..MaxWidth

Next ==
  \/ PushNil(MaxStack, MaxCost)
  \/ PushText(Texts, MaxStack, MaxCost)
  \/ PushLine(MaxStack, MaxCost)
  \/ DoAppend(MaxCost)
  \/ DoNest(NestAmounts, MaxCost)
  \/ DoGroup(MaxCost)
  \/ DoPretty(Widths)

Spec == Init /\ [][Next]_vars

(* ------------------------------------------------------------------ *)
(* Properties of the engine over documents built from the primitives   *)
(* ------------------------------------------------------------------ *)
\* the strings of the Text fragments of a document
Fragments(x) ==
  CASE x.tag = "Append" -> Fragments(x.x) \cup Fragments(x.y)
    [] x.tag = "Nest" -> Fragments(x.x)
    [] x.tag = "Union" -> Fragments(x.x) \cup Fragments(x.y)
    [] x.tag = "Text" -> {x.s}
    [] OTHER -> {}

\* every line of the resolved layout x that holds a " " fragment (flat says
\* one was seen on the current line, col is the line's length so far) has
\* length <= w
FlatLinesFit(x, w, col, flat) ==
  CASE x.tag = "Nil" -> (flat => col <= w)
    [] x.tag = "Text" ->
         FlatLinesFit(x.x, w, col + Len(x.s), flat \/ x.s = <<" ">>)
    [] x.tag = "Line" ->
         (flat => col <= w) /\ FlatLinesFit(x.x, w, x.i, FALSE)

\* pretty returned a string
Rendered == pc = "rendered"

\* pretty was called: it returned a string or panicked
Called == pc \in {"rendered", "panicked"}

\* C1 as stated: every line of pretty(w, x) has length <= w or is a single
\* Text fragment of x that is longer than w.
C1_NoTokenSplitting ==
  Rendered =>
    \A n \in 1..Len(Lines(out)) :
      LET l == Lines(out)[n]
      IN Len(l) <= width \/ (l \in Fragments(Top) /\ Len(l) > width)

\* C1 amended: when the Text fragments of x hold no space and pretty(w, x)
\* returns, every line of it on which a group was rendered flat (the line
\* holds a space that flatten wrote for a line()) has length <= w.
C1_FlatLinesFit ==
  Rendered => /\ out = layout(res)
              /\ FlatLinesFit(res, width, 0, FALSE)

\* an output of several lines in which a flat group fills a line exactly
C1_Witness ==
  /\ Rendered
  /\ Breaks(out) >= 1
  /\ \E n \in 1..Len(Lines(out)) :
       LET l == Lines(out)[n]
       IN Len(l) = width /\ \E m \in 2..Len(l) : l[m] = " " /\ l[m - 1] # " "

\* C2: pretty(w, group(x)) is pretty(w, flatten(x)), one line, when the
\* flattened text of x has length <= w, and pretty(w, x) otherwise (the
\* same string, or a panic where pretty(w, x) panics).
C2_GroupFlatOrFallback ==
  (Called /\ call.op = "group") =>
    LET flat == pretty(width, flatten(call.x))
    IN /\ Top = group(call.x)
       /\ Len(flat) <= width => (out = flat /\ Breaks(out) = 0)
       /\ Len(flat) > width => out = pretty(width, call.x)

\* group(x) rendered where the flattened text has length exactly w and x
\* itself renders on several lines
C2_Witness ==
  /\ Rendered
  /\ call.op = "group"
  /\ Len(pretty(width, flatten(call.x))) = width
  /\ Breaks(pretty(width, call.x)) >= 1
  /\ Breaks(out) = 0

\* C4: a document append(append(x, y), z) renders as append(x, append(y, z))
\* at every width (the same string, or both calls panic).
C4_AppendAssociative ==
  (Called /\ Top.tag = "Append" /\ Top.x.tag = "Append") =>
    out = pretty(width, append(Top.x.x, append(Top.x.y, Top.y)))

\* append(append(x, y), z) rendered where y is a group that had to break
C4_Witness ==
  /\ Rendered
  /\ Top.tag = "Append"
  /\ Top.x.tag = "Append"
  /\ Top.x.y.tag = "Union"
  /\ Breaks(out) = 1
  /\ Breaks(pretty(width + 1, Top)) = 0

\* C9: flatten is idempotent, and the two branches of every Union of a
\* document built by the constructors have the same flattening.
C9_FlattenEquivalence ==
  \A n \in 1..Len(docs) :
    /\ flatten(flatten(docs[n])) = flatten(docs[n])
    /\ \A u \in Unions(docs[n]) : flatten(u.x) = flatten(u.y)

\* a group of an append of two different parts, one of them a group
C9_Witness ==
  /\ Len(docs) >= 1
  /\ Top.tag = "Union"
  /\ Top.y.tag = "Append"
  /\ Top.y.x.tag = "Union"
  /\ flatten(Top.y.x) # flatten(Top.y.y)
  /\ Cardinality(Unions(Top)) = 2

\* C10: the resolved layout with each Line(i, rest) replaced by
\* Text(" ", rest) renders as pretty(w, flatten(x)), a string.
C10_ContentPreserved ==
  Called => /\ res = best(width, 0, Top)
            /\ layout(Unbreak(res)) = pretty(width, flatten(Top))
            /\ layout(Unbreak(res)) # Panic

\* a rendering with a line break in which one group was rendered flat
C10_Witness ==
  /\ Rendered
  /\ Breaks(out) >= 1
  /\ Cardinality(Unions(Top)) >= 1
  /\ ~FlatLinesFit(res, -1, 0, FALSE)
  /\ out # pretty(width, flatten(Top))

(* ------------------------------------------------------------------ *)
(* Documents of groups, appends, one text and line breaks              *)
(* ------------------------------------------------------------------ *)
MaxCostW == 9
WideTexts == {<<"a", "a">>}

NextWidth ==
  \/ PushText(WideTexts, MaxStack, MaxCostW)
  \/ PushLine(MaxStack, MaxCostW)
  \/ DoAppend(MaxCostW)
  \/ DoGroup(MaxCostW)
  \/ DoPretty(Widths)

SpecWidth == Init /\ [][NextWidth]_vars

\* x is built only from group-wrapped sub-documents
GroupBuilt(x) ==
  CASE x.tag = "Union" -> TRUE
    [] x.tag = "Append" -> GroupBuilt(x.x) /\ GroupBuilt(x.y)
    [] x.tag = "Nest" -> GroupBuilt(x.x)
    [] OTHER -> FALSE

\* the number of group calls that built x
Groups(x) ==
  CASE x.tag = "Union" -> 1 + Groups(x.y)
    [] x.tag = "Append" -> Groups(x.x) + Groups(x.y)
    [] x.tag = "Nest" -> Groups(x.x)
    [] OTHER -> 0

\* C3 as stated: a document built only from group-wrapped sub-documents
\* has no more line breaks at a larger width.
C3_WidthMonotone ==
  (Rendered /\ GroupBuilt(Top)) =>
    \A w2 \in Widths : w2 >= width => Breaks(pretty(w2, Top)) <= Breaks(out)

\* C3 amended: a document that holds at most one group has no more line
\* breaks at a larger width.
C3_OneGroupMonotone ==
  (Rendered /\ Groups(Top) <= 1) =>
    \A w2 \in Widths : w2 >= width => Breaks(pretty(w2, Top)) <= Breaks(out)

\* a document of one group and a line break outside it, rendered at a width
\* where the group breaks, that has fewer breaks at a larger width
C3_Witness ==
  /\ Rendered
  /\ Groups(Top) = 1
  /\ \E w2 \in Widths : /\ w2 > width
                        /\ Breaks(pretty(w2, Top)) < Breaks(out)
                        /\ Breaks(pretty(w2, Top)) >= 1

(* ------------------------------------------------------------------ *)
(* fits on resolved layouts and remaining widths of either sign        *)
(* ------------------------------------------------------------------ *)
MaxCostF == 4
FitTexts == {<<"a">>, <<"b", "b">>}
Remainders == (0 - MaxWidth)..MaxWidth

NextFits ==
  \/ PushNil(MaxStack, MaxCostF)
  \/ PushText(FitTexts, MaxStack, MaxCostF)
  \/ PushLine(MaxStack, MaxCostF)
  \/ DoAppend(MaxCostF)
  \/ DoGroup(MaxCostF)
  \/ DoPretty(Widths)
  \/ DoFits(Remainders)

SpecFits == Init /\ [][NextFits]_vars

\* the three rules: Nil gives true, Line gives true, Text(s, rest) gives
\* false when r - len(s) is negative and the answer for rest otherwise
RuleFits(r, x) ==
  CASE x.tag = "Nil" -> TRUE
    [] x.tag = "Line" -> TRUE
    [] x.tag = "Text" ->
         IF r - Len(x.s) < 0 THEN FALSE ELSE RuleFits(r - Len(x.s), x.x)

\* C8 as stated: fits(r, d) is the answer of the three rules for every r,
\* negative ones included.
C8_FitsFollowsRules ==
  fit.done => fit.v = RuleFits(fit.w, res)

\* C8 amended: fits(r, d) is false for every negative r, whatever d is, and
\* the answer of the three rules for r >= 0.
C8_FitsNegativeFalse ==
  fit.done => fit.v = (IF fit.w < 0 THEN FALSE ELSE RuleFits(fit.w, res))

\* fits was asked about a layout that starts with a Line at a negative
\* remaining width and answered false
C8_Witness ==
  /\ fit.done
  /\ fit.w < 0
  /\ res.tag = "Line"
  /\ fit.v = FALSE

(* ------------------------------------------------------------------ *)
(* The derived combinators bracket, fill and fill_words                *)
(* ------------------------------------------------------------------ *)
MaxCostD == 7
MaxStackD == 2
MaxFillCost == 3
MaxStrLen == 3
ItemTexts == {<<"x">>, <<",">>, <<"y">>}
Strings == UNION {[1..n -> {"x", " "}] : n \in 0..MaxStrLen}

NextDerived ==
  \/ PushText(ItemTexts, MaxStackD, MaxCostD)
  \/ PushLine(MaxStackD, MaxCostD)
  \/ DoAppend(MaxCostD)
  \/ DoBracket(<<"[">>, <<"]">>, MaxCostD)
  \/ DoFill(MaxFillCost)
  \/ DoFillWords(Strings)
  \/ DoPretty(Widths)

SpecDerived == Init /\ [][NextDerived]_vars

\* the leaves of a document of appends, left to right
Leaves(x) ==
  CASE x.tag = "Append" -> Leaves(x.x) \o Leaves(x.y)
    [] x.tag = "Nil" -> <<>>
    [] OTHER -> <<x>>

\* text("x") <> text(",") <> line() <> text("y"), however it is associated
IsScenarioBody(x) ==
  Leaves(x) = <<text(<<"x">>), text(<<",">>), line, text(<<"y">>)>>

\* C5 as stated: fill of [x, y, ...zs] is a choice between "flatten(x), a
\* space, fill(flatten(y) : zs)" and "x, a line break, fill(y : zs)": the
\* output is the rendering of one of the two and holds each element once.
C5_FillOffersChoice ==
  (Rendered /\ call.op = "fill") =>
    LET x == call.xs[1]
        y == call.xs[2]
        zs == Tail(Tail(call.xs))
        flat == space(flatten(x), fill(<<flatten(y)>> \o zs))
        broken == newline(x, fill(<<y>> \o zs))
    IN /\ out \in {pretty(width, flat), pretty(width, broken)}
       /\ layout(Unbreak(res)) = pretty(width, flatten(spread(call.xs)))

\* C6 as stated: in pretty(w, fill_words(s)) adjacent tokens of s are
\* separated by one space or by one line break, never both, and a string
\* of length <= w renders as s.
C6_FillWordsWraps ==
  (Rendered /\ call.op = "fill_words") =>
    /\ Len(out) = Len(call.s)
    /\ \A n \in 1..Len(call.s) :
         IF call.s[n] = " " THEN out[n] \in {" ", "\n"} ELSE out[n] = call.s[n]
    /\ Len(call.s) <= width => out = call.s

\* C7 as stated: scenario 5 returns "[\n  x,y\n]".
C7_Scenario5 ==
  (Rendered /\ call.op = "bracket" /\ IsScenarioBody(call.x) /\ width = 3) =>
    out = <<"[", "\n", " ", " ", "x", ",", "y", "\n", "]">>

\* C7 amended: scenario 5 returns "[\n  x,\n  y\n]": the line() of the body
\* breaks as well, at the body's indentation of 2.
C7_Scenario5Breaks ==
  (Rendered /\ call.op = "bracket" /\ IsScenarioBody(call.x) /\ width = 3) =>
    /\ Top = bracket(<<"[">>, call.x, <<"]">>)
    /\ out = <<"[", "\n", " ", " ", "x", ",", "\n", " ", " ", "y", "\n", "]">>

\* scenario 5 has been rendered
C7_Witness ==
  /\ Rendered
  /\ call.op = "bracket"
  /\ IsScenarioBody(call.x)
  /\ width = 3
  /\ Breaks(out) = 3

====
